---- MODULE Spec2Model ----
(***************************************************************************)
(* Device report generation of ngeran/aether.                              *)
(*                                                                         *)
(* The repository holds two programs that run a report job:                *)
(*   app_gateway       the HTTP router (api/routers/reports.py) queues a   *)
(*                     background task that runs execute_report_generation *)
(*                     (services/reports_service.py);                      *)
(*   reports_generator DeviceReportGenerator.generate_reports_for_device   *)
(*                     (frontend/reports_generator/report_generator.py).   *)
(* A behaviour follows one request through one of the two programs.  The   *)
(* device, the RPC responses and the parsers' success are the environment: *)
(* every outcome the code distinguishes is chosen nondeterministically.    *)
(***************************************************************************)
EXTENDS Integers, Sequences, FiniteSets, TLC

(***************************************************************************)
(* Bounds of the model.                                                    *)
(***************************************************************************)
\* longest requested list of report type ids
MaxTypes == 3
\* largest number of row elements in a routing-table response
MaxRows == 102
\* largest number of route-table elements in a routing-table response
MaxTables == 2

\* the ids requests are drawn from: three registered ids and one unknown id
RequestIds == {"device_os", "bgp", "routes", "bogus"}
\* the values uuid.uuid4() is drawn from
JobIds == {"u1", "u2"}

SeqsUpTo(S, n) == UNION {[1..k -> S] : k \in 0..n}
Range(s) == {s[i] : i \in DOMAIN s}
Put(m, k, v) == [x \in DOMAIN m \cup {k} |-> IF x = k THEN v ELSE m[x]]
EmptyMap == [x \in {} |-> x]

(***************************************************************************)
(* The three registries.                                                   *)
(***************************************************************************)
\* api/routers/reports.py REPORT_TYPES: the list of descriptors (id, timeout)
ROUTER_REPORT_TYPES ==
    << [id |-> "device_os", timeout |-> 30],
       [id |-> "interfaces", timeout |-> 45],
       [id |-> "interfaces_stats", timeout |-> 60],
       [id |-> "ospf", timeout |-> 30],
       [id |-> "bgp", timeout |-> 30],
       [id |-> "routes", timeout |-> 45],
       [id |-> "ldp", timeout |-> 30],
       [id |-> "mpls", timeout |-> 30],
       [id |-> "rsvp", timeout |-> 30] >>

ReportIds ==
    {"device_os", "interfaces", "interfaces_stats", "ospf", "bgp", "routes",
     "ldp", "mpls", "rsvp"}

RpcOf(id) ==
    CASE id = "device_os" -> "get-software-information"
      [] id = "interfaces" -> "get-interface-information"
      [] id = "interfaces_stats" -> "get-interface-information"
      [] id = "ospf" -> "get-ospf-neighbor-information"
      [] id = "bgp" -> "get-bgp-summary-information"
      [] id = "routes" -> "get-route-information"
      [] id = "ldp" -> "get-ldp-session-information"
      [] id = "mpls" -> "get-mpls-lsp-information"
      [] id = "rsvp" -> "get-rsvp-session-information"

TimeoutOf(id) ==
    CASE id \in {"interfaces", "routes"} -> 45
      [] id = "interfaces_stats" -> 60
      [] OTHER -> 30

RpcArgsOf(id) == IF id = "interfaces_stats" THEN {"extensive"} ELSE {}

ParserOf(id) ==
    CASE id = "device_os" -> "parse_device_os"
      [] id \in {"interfaces", "interfaces_stats"} -> "parse_interfaces"
      [] id = "ospf" -> "parse_ospf"
      [] id = "bgp" -> "parse_bgp"
      [] id = "routes" -> "parse_routes"
      [] id = "ldp" -> "parse_ldp"
      [] id = "mpls" -> "parse_mpls"
      [] id = "rsvp" -> "parse_rsvp"

\* services/reports_service.py REPORT_TYPES: id -> descriptor
REPORT_TYPES ==
    [id \in ReportIds |->
        [id |-> id, rpc |-> RpcOf(id), rpc_args |-> RpcArgsOf(id),
         timeout |-> TimeoutOf(id)]]

\* the keys of report_generator.py REPORT_REGISTRY, as written there
RegistryIds ==
    {"device_os", "interfaces", "interfaces_stats", "ospf", "bgp", "routes",
     "ldp", "mpls", "rsvp"}

\* report_generator.py REPORT_REGISTRY: id -> descriptor
REPORT_REGISTRY ==
    [id \in RegistryIds |->
        [rpc |-> RpcOf(id), rpc_args |-> RpcArgsOf(id),
         timeout |-> TimeoutOf(id),
         parser |-> ParserOf(id)]]

(***************************************************************************)
(* State.                                                                  *)
(***************************************************************************)
VARIABLES
    program,        \* which program runs: "app_gateway" or "reports_generator"
    pc,             \* position of the request / job in the code
    state,          \* the job's state in the orchestrator state machine
    request,        \* the report type ids the caller asked for
    response,       \* the router's HTTP response
    ret,            \* the return value of generate_reports_for_device
    job_id,         \* uuid of the request
    report_types,   \* the job's report_types argument
    index,          \* loop index: report_types[1..index] are processed
    results,        \* the job's result mapping: id -> ReportResult
    dev,            \* the local dev / device: "None" or "Device"
    connected,      \* device.connected: the session is open
    events,         \* the messages handed to publish_status_update, in order
    openCount,      \* device side: sessions opened
    rpcLog,         \* device side: the RPC invocations received, in order
    closeCount,     \* device side: close() invocations received
    publishFailed,  \* some publish_to_redis call returned False or raised
    transport,      \* the pub/sub transport: "reliable" or "unreliable"
    tree,           \* a routing-table response given to parse_routes
    parsed,         \* what parse_routes returned for tree
    jobs,           \* concurrent calls: slot -> the locals of that call
    channels,       \* the pub/sub side: channel name -> messages received
    eventLoop,      \* who runs on the event loop's thread: "free" or a slot
    caller,         \* position of generate_reports: "none" when it is not run
    batch,          \* the arguments of generate_reports: devices, report_types
    device_pos,     \* devices[1..device_pos] are processed
    overall_results,\* hostname -> the return value of its device call
    overall         \* the return value of generate_reports

jobVars ==
    <<program, pc, state, request, response, ret, job_id, report_types, index,
      results, dev, connected, events, openCount, rpcLog, closeCount,
      publishFailed, transport>>
parserVars == <<tree, parsed>>
concVars == <<jobs, channels, eventLoop>>
loopVars == <<caller, batch, device_pos, overall_results, overall>>
vars == <<jobVars, parserVars, concVars, loopVars>>

NoResponse ==
    [status_code |-> 0, detail |-> "", job_id |-> "", ws_channel |-> <<"", "">>,
     status |-> "", total_reports |-> 0]
NoReturn ==
    [keys |-> {}, status |-> "", error |-> "", reports |-> EmptyMap,
     total_reports |-> 0, successful |-> 0, failed |-> 0]
NoTree == [route |-> 0, rt_entry |-> 0, route_table |-> <<>>]
NoParsed == [keys |-> {}, routes |-> <<>>, total |-> 0]

\* the outcomes of the environment the code distinguishes
OpenOutcomes == {"ok", "ConnectError", "Exception"}
FactsOutcomes == {"ok", "ConnectError", "Exception"}
RpcOutcomes == {"ok", "malformed", "RpcError", "Exception"}
CloseOutcomes == {"ok", "Exception"}

(***************************************************************************)
(* Result records and summary counts.                                      *)
(***************************************************************************)
ErrorResult(msg) == [status |-> "error", error |-> msg, data |-> ""]
SuccessResult(data) == [status |-> "success", error |-> "", data |-> data]

\* sum(1 for r in results.values() if r["status"] == s)
CountStatus(m, s) == Cardinality({k \in DOMAIN m : m[k].status = s})

(***************************************************************************)
(* Progress events (reports_service.py).  keys is the set of keys of the   *)
(* message's data object; a field whose key is absent holds a filler.      *)
(***************************************************************************)
\* one channel name for every job
ServiceChannelOfFirstJob(jid) == <<"ws_channel:job:", "u1">>

\* ws_channel = f"ws_channel:job:{job_id}"
ServiceChannel(jid) == <<"ws_channel:job:", jid>>

BaseEvent(jid, type) ==
    [channel |-> ServiceChannel(jid), event_type |-> type, job_id |-> jid,
     status |-> "", keys |-> {}, step |-> "", progress |-> 0,
     report_type |-> "", report_status |-> "", reports |-> EmptyMap,
     total |-> 0, successful |-> 0, failed |-> 0]

ConnectingEvent(jid) ==
    [BaseEvent(jid, "status") EXCEPT
        !.keys = {"step", "message", "progress"},
        !.step = "connecting", !.progress = 5]

ConnectedEvent(jid) ==
    [BaseEvent(jid, "status") EXCEPT
        !.keys = {"step", "message", "progress", "device_info"},
        !.step = "connected", !.progress = 10]

\* the share counted from the report types already done
ReportProgressOfDone(i, total_reports) == 10 + ((i * 70) \div total_reports)

\* the loop given a share of 90 instead of 70
ReportProgressShareOfNinety(i, total_reports) ==
    10 + (((i + 1) * 90) \div total_reports)

\* progress = 10 + ((index + 1) * 70 // total_reports), index from 0
ReportProgress(i, total_reports) == 10 + (((i + 1) * 70) \div total_reports)

GeneratingEvent(jid, id, progress) ==
    [BaseEvent(jid, "status") EXCEPT
        !.keys = {"step", "message", "report_type", "progress"},
        !.step = "generating_report", !.report_type = id,
        !.progress = progress]

\* a success announced by one more status event, not by a completion event
ReportCompleteEventAsStatus(jid, id, progress) ==
    [BaseEvent(jid, "status") EXCEPT
        !.keys = {"step", "message", "report_type", "progress"},
        !.step = "generating_report", !.report_type = id,
        !.progress = progress]

ReportCompleteEvent(jid, id, progress) ==
    [BaseEvent(jid, "REPORT_COMPLETE") EXCEPT
        !.keys = {"report_type", "report_name", "status", "progress"},
        !.report_type = id, !.report_status = "success",
        !.progress = progress]

FinalizingEvent(jid) ==
    [BaseEvent(jid, "status") EXCEPT
        !.keys = {"step", "message", "progress"},
        !.step = "finalizing", !.progress = 90]

\* the summary event without the result mapping
SummaryEventWithoutReports(jid, res, total_reports) ==
    [BaseEvent(jid, "REPORT_COMPLETE") EXCEPT
        !.keys = {"job_id", "hostname", "device_info", "summary", "timestamp"},
        !.total = total_reports,
        !.successful = CountStatus(res, "success"),
        !.failed = CountStatus(res, "error")]

\* data = final_results
SummaryEvent(jid, res, total_reports) ==
    [BaseEvent(jid, "REPORT_COMPLETE") EXCEPT
        !.keys = {"job_id", "hostname", "device_info", "reports", "summary",
                  "timestamp"},
        !.reports = res, !.total = total_reports,
        !.successful = CountStatus(res, "success"),
        !.failed = CountStatus(res, "error")]

FinishedEvent(jid) ==
    [BaseEvent(jid, "status") EXCEPT
        !.status = "finished",
        !.keys = {"step", "message", "progress"},
        !.step = "complete", !.progress = 100]

\* the error event carrying a progress of 100
ErrorEventWithFullProgress(jid) ==
    [BaseEvent(jid, "error") EXCEPT
        !.keys = {"step", "message", "error", "progress"}, !.step = "error",
        !.progress = 100]

ErrorEvent(jid) ==
    [BaseEvent(jid, "error") EXCEPT
        !.keys = {"step", "message", "error"}, !.step = "error"]

\* publish_status_update never raises: the message is handed to the transport
\* the channel delivering the latest message first
publish_status_update_latest_first(log, message) == <<message>> \o log

publish_status_update(log, message) == Append(log, message)

\* what publish_to_redis does with a message: returns True, returns False,
\* or raises
PublishOutcomes == {"ok", "false", "raises"}

\* what a publish call can meet: a reliable transport takes every message
Published == IF transport = "reliable" THEN {"ok"} ELSE PublishOutcomes

\* publish_status_update without its try/except
publish_raises_uncaught(outcome) == outcome = "raises"

\* lines 615-622: the call sits in try/except Exception, a False return is only
\* logged: nothing gets out of publish_status_update whatever the transport did
publish_raises(outcome) == FALSE

(***************************************************************************)
(* Router: POST /reports/generate.                                         *)
(***************************************************************************)
\* the router's list holding a report type the other registries lack
valid_report_ids_with_unregistered ==
    {ROUTER_REPORT_TYPES[i].id : i \in DOMAIN ROUTER_REPORT_TYPES} \cup {"bogus"}

\* valid_report_ids = [rt["id"] for rt in REPORT_TYPES]
valid_report_ids == {ROUTER_REPORT_TYPES[i].id : i \in DOMAIN ROUTER_REPORT_TYPES}

\* only the first requested id looked up
invalid_types_first_only(ids) ==
    IF ids # <<>> /\ ids[1] \notin valid_report_ids THEN <<ids[1]>> ELSE <<>>

\* invalid_types = [rt for rt in req.report_types if rt not in valid_report_ids]
invalid_types(ids) == SelectSeq(ids, LAMBDA rt : rt \notin valid_report_ids)

Rejected(jid, why) ==
    [NoResponse EXCEPT !.status_code = 400, !.detail = why]

Accepted(jid, ids) ==
    [NoResponse EXCEPT
        !.status_code = 200, !.job_id = jid, !.ws_channel = <<"job:", jid>>,
        !.status = "queued", !.total_reports = Len(ids)]

generate_reports(ids, jid) ==
    /\ program = "app_gateway"
    /\ pc = "idle"
    /\ request' = ids
    /\ job_id' = jid
    /\ IF invalid_types(ids) # <<>>
       THEN /\ response' = Rejected(jid, "Invalid report types")
            /\ pc' = "rejected"
            /\ UNCHANGED <<state, report_types>>
       ELSE IF ids = <<>>
       THEN /\ response' = Rejected(jid, "At least one report type must be specified")
            /\ pc' = "rejected"
            /\ UNCHANGED <<state, report_types>>
       ELSE /\ response' = Accepted(jid, ids)
            /\ report_types' = ids
            /\ pc' = "queued"
            /\ state' = "Queued"
    /\ UNCHANGED <<program, ret, index, results, dev, connected, events,
                   openCount, rpcLog, closeCount, publishFailed, transport, parserVars, concVars, loopVars>>

(***************************************************************************)
(* Service: execute_report_generation, cut at its steps.                   *)
(***************************************************************************)
\* the connection error logged and not raised again
JobFailedSwallowed(log) ==
    /\ events' = log
    /\ state' = "Connected"
    /\ pc' = "loop"

\* a failed open going unnoticed: the job carries on with its Device
open_raises_never(open) == FALSE

\* dev.open() (service line 141, generator line 511) raises when the session
\* cannot be opened, which leaves the try block before any RPC
open_raises(open) == open # "ok"

\* the outer handler only logging the failure
JobFailedSilently(log) ==
    /\ events' = log
    /\ state' = "Failed"
    /\ pc' = "finally"

\* the finished event published from a finally clause, after the error event
JobFailedThenFinished(log) ==
    /\ events' = publish_status_update(
                      publish_status_update(log, ErrorEvent(job_id)),
                      FinishedEvent(job_id))
    /\ state' = "Failed"
    /\ pc' = "finally"

\* lines 317-332: the outer handler publishes the error event
JobFailed(log) ==
    /\ events' = publish_status_update(log, ErrorEvent(job_id))
    /\ state' = "Failed"
    /\ pc' = "finally"

\* lines 111-134: locals, then the connecting event
JobStart(published) ==
    /\ program = "app_gateway"
    /\ pc = "queued"
    /\ results' = EmptyMap
    /\ dev' = "None"
    /\ index' = 0
    /\ LET connecting == publish_status_update(events, ConnectingEvent(job_id))
       IN IF publish_raises(published)
          THEN JobFailed(connecting)
          ELSE /\ events' = connecting
               /\ state' = "Connecting"
               /\ pc' = "open"
    /\ publishFailed' = (publishFailed \/ published # "ok")
    /\ UNCHANGED transport
    /\ UNCHANGED <<program, request, response, ret, job_id, report_types,
                   connected, openCount, rpcLog, closeCount, parserVars, concVars, loopVars>>

\* lines 136-168: Device(), dev.open, dev.facts, the connected event
JobOpen(open, facts, published) ==
    /\ program = "app_gateway"
    /\ pc = "open"
    /\ dev' = "Device"
    /\ IF ~open_raises(open)
       THEN /\ connected' = (open = "ok")
            /\ openCount' = IF open = "ok" THEN openCount + 1 ELSE openCount
            /\ IF facts = "ok"
               THEN LET isConnected ==
                            publish_status_update(events, ConnectedEvent(job_id))
                    IN IF publish_raises(published)
                       THEN JobFailed(isConnected)
                       ELSE /\ events' = isConnected
                            /\ state' = "Connected"
                            /\ pc' = "loop"
               ELSE JobFailed(events)
       ELSE /\ facts = "ok"
            /\ JobFailed(events)
            /\ UNCHANGED <<connected, openCount>>
    /\ publishFailed' = (publishFailed \/ published # "ok")
    /\ UNCHANGED transport
    /\ UNCHANGED <<program, request, response, ret, job_id, report_types,
                   index, results, rpcLog, closeCount, parserVars, concVars, loopVars>>

\* what dev.rpc(...) is called with: the service passes the descriptor's rpc
\* name and rpc_args and normalize=True, and no timeout
ServiceRpcCall(id) ==
    [report_type |-> id, rpc |-> REPORT_TYPES[id].rpc,
     args |-> REPORT_TYPES[id].rpc_args, timeout |-> 0]

\* the device's record of a call and of how it answered
Answered(call, outcome) ==
    [report_type |-> call.report_type, rpc |-> call.rpc, args |-> call.args,
     timeout |-> call.timeout, outcome |-> outcome]

\* a failed call made a second time
InvokeRpcAgainOnFailure(log, call, outcome) ==
    IF outcome \in {"RpcError", "Exception"}
    THEN Append(Append(log, Answered(call, outcome)), Answered(call, outcome))
    ELSE Append(log, Answered(call, outcome))

\* service lines 205-208, generator lines 425-433: the call is made once and
\* its exception goes to the handlers of the iteration; the device's record
\* of the session's invocations grows by that one call
InvokeRpc(log, call, outcome) == Append(log, Answered(call, outcome))

\* parse_rpc_response: any exception of the parsing is caught and a dict
\* holding "error" and "raw_data" is returned in place of the parsed data
parse_rpc_response(outcome) ==
    IF outcome = "malformed" THEN "parse_error" ELSE "structured"

\* ServiceResult with the RpcError handler recording a success
ServiceResultRpcErrorAsSuccess(outcome) ==
    CASE outcome \in {"ok", "malformed", "RpcError"} ->
             SuccessResult(parse_rpc_response(outcome))
      [] OTHER -> ErrorResult("Exception")

\* lines 198-253: the result recorded for one report type
ServiceResult(outcome) ==
    CASE outcome \in {"ok", "malformed"} -> SuccessResult(parse_rpc_response(outcome))
      [] outcome = "RpcError" -> ErrorResult("RPC Error")
      [] OTHER -> ErrorResult("Exception")

\* lines 214, 241, 249: results[report_type_id] = {...}
ServiceRecord(res, id, outcome) == Put(res, id, ServiceResult(outcome))

\* lines 171-253: one iteration of the loop over report_types
JobReport(outcome, generated, completed) ==
    /\ program = "app_gateway"
    /\ pc = "loop"
    /\ index < Len(report_types)
    /\ LET report_type_id == report_types[index + 1]
           progress == ReportProgress(index, Len(report_types))
           generating == publish_status_update(
                             events, GeneratingEvent(job_id, report_type_id, progress))
           succeeded == ServiceResult(outcome).status = "success"
       IN IF report_type_id \notin DOMAIN REPORT_TYPES
          THEN /\ outcome = "ok" /\ generated = "ok" /\ completed = "ok"
               /\ results' = Put(results, report_type_id,
                                 ErrorResult("Unknown report type"))
               /\ index' = index + 1
               /\ state' = "Generating"
               /\ UNCHANGED <<events, rpcLog, pc>>
          ELSE IF publish_raises(generated)
          THEN /\ outcome = "ok" /\ completed = "ok"
               /\ JobFailed(generating)
               /\ UNCHANGED <<results, rpcLog, index>>
          ELSE /\ succeeded \/ completed = "ok"
               /\ rpcLog' = InvokeRpc(rpcLog, ServiceRpcCall(report_type_id), outcome)
               /\ results' =
                    IF succeeded /\ publish_raises(completed)
                    THEN Put(results, report_type_id, ErrorResult("Exception"))
                    ELSE ServiceRecord(results, report_type_id, outcome)
               /\ events' =
                    IF succeeded
                    THEN publish_status_update(
                             generating,
                             ReportCompleteEvent(job_id, report_type_id, progress))
                    ELSE generating
               /\ index' = index + 1
               /\ state' = "Generating"
               /\ UNCHANGED pc
    /\ publishFailed' = (publishFailed \/ generated # "ok" \/ completed # "ok")
    /\ UNCHANGED transport
    /\ UNCHANGED <<program, request, response, ret, job_id, report_types,
                   dev, connected, openCount, closeCount, parserVars, concVars, loopVars>>

\* lines 255-269: the loop is over, the finalizing event
JobFinalize(published) ==
    /\ program = "app_gateway"
    /\ pc = "loop"
    /\ index = Len(report_types)
    /\ LET finalizing == publish_status_update(events, FinalizingEvent(job_id))
       IN IF publish_raises(published)
          THEN JobFailed(finalizing)
          ELSE /\ events' = finalizing
               /\ state' = "Finalizing"
               /\ pc' = "complete"
    /\ publishFailed' = (publishFailed \/ published # "ok")
    /\ UNCHANGED transport
    /\ UNCHANGED <<program, request, response, ret, job_id, report_types,
                   index, results, dev, connected, openCount, rpcLog,
                   closeCount, parserVars, concVars, loopVars>>

\* lines 271-315: final_results, the summary event, the finished event
JobComplete(summarised, finished) ==
    /\ program = "app_gateway"
    /\ pc = "complete"
    /\ LET summary == publish_status_update(
                          events, SummaryEvent(job_id, results, Len(report_types)))
           complete == publish_status_update(summary, FinishedEvent(job_id))
       IN IF publish_raises(summarised)
          THEN finished = "ok" /\ JobFailed(summary)
          ELSE IF publish_raises(finished)
          THEN JobFailed(complete)
          ELSE /\ events' = complete
               /\ state' = "Completed"
               /\ pc' = "finally"
    /\ publishFailed' = (publishFailed \/ summarised # "ok" \/ finished # "ok")
    /\ UNCHANGED transport
    /\ UNCHANGED <<program, request, response, ret, job_id, report_types,
                   index, results, dev, connected, openCount, rpcLog,
                   closeCount, parserVars, concVars, loopVars>>

\* the close placed on the success path only
ServiceClosesOnSuccessOnly(d, isConnected) == d # "None" /\ state = "Completed"

\* line 336: if dev
ServiceCloses(d, isConnected) == d # "None"

\* lines 334-341: finally, dev.close() with its exception caught
JobClose(outcome) ==
    /\ program = "app_gateway"
    /\ pc = "finally"
    /\ IF ServiceCloses(dev, connected)
       THEN /\ closeCount' = closeCount + 1
            /\ connected' = IF outcome = "ok" THEN FALSE ELSE connected
       ELSE /\ outcome = "ok"
            /\ UNCHANGED <<closeCount, connected>>
    /\ pc' = "done"
    /\ UNCHANGED <<program, state, request, response, ret, job_id,
                   report_types, index, results, dev, events, openCount,
                   rpcLog, publishFailed, transport, parserVars, concVars, loopVars>>

(***************************************************************************)
(* Generator: DeviceReportGenerator (report_generator.py).                 *)
(***************************************************************************)
\* the whole request reported as invalid when one of its ids is
validate_report_types_whole_request(ids) ==
    LET invalid == SelectSeq(ids, LAMBDA rt : rt \notin DOMAIN REPORT_REGISTRY)
    IN <<Len(invalid) = 0, IF Len(invalid) = 0 THEN invalid ELSE ids>>

\* valid as soon as one requested id is registered
validate_report_types_any(ids) ==
    LET invalid == SelectSeq(ids, LAMBDA rt : rt \notin DOMAIN REPORT_REGISTRY)
    IN <<ids = <<>> \/ Len(invalid) < Len(ids), invalid>>

\* validate_report_types: (len(invalid) == 0, invalid)
validate_report_types(ids) ==
    LET invalid == SelectSeq(ids, LAMBDA rt : rt \notin DOMAIN REPORT_REGISTRY)
    IN <<Len(invalid) = 0, invalid>>

\* what device.rpc(...) is called with: rpc name, rpc_args, normalize=True
GeneratorRpcCall(id) ==
    [report_type |-> id, rpc |-> REPORT_REGISTRY[id].rpc,
     args |-> REPORT_REGISTRY[id].rpc_args, timeout |-> 0]

\* generate_report, from the RPC on: the parser's exception is not caught by
\* the parser and reaches the handler of generate_report
GeneratorResult(outcome) ==
    CASE outcome = "ok" -> SuccessResult("structured")
      [] outcome = "RpcError" -> ErrorResult("RPC Error")
      [] OTHER -> ErrorResult("Unexpected error")

ErrorReturn(msg) ==
    [NoReturn EXCEPT
        !.keys = {"hostname", "status", "error", "reports"},
        !.status = "error", !.error = msg]

ReportsReturn(res, types) ==
    [NoReturn EXCEPT
        !.keys = {"hostname", "device_info", "reports", "total_reports",
                  "successful", "failed", "timestamp"},
        !.reports = res, !.total_reports = Len(types),
        !.successful = CountStatus(res, "success"),
        !.failed = CountStatus(res, "error")]

\* lines 490-520 and 537-550: validation, Device(), open, facts
GenCall(ids, open, facts) ==
    /\ program = "reports_generator"
    /\ pc = "idle"
    /\ request' = ids
    /\ report_types' = ids
    /\ results' = EmptyMap
    /\ index' = 0
    /\ IF ~validate_report_types(ids)[1]
       THEN /\ open = "ok" /\ facts = "ok"
            /\ ret' = ErrorReturn("Invalid report types")
            /\ pc' = "finally"
            /\ UNCHANGED <<state, dev, connected, openCount>>
       ELSE /\ dev' = "Device"
            /\ IF ~open_raises(open)
               THEN /\ connected' = (open = "ok")
                    /\ openCount' = IF open = "ok" THEN openCount + 1 ELSE openCount
                    /\ IF facts = "ok"
                       THEN /\ state' = "Connected"
                            /\ pc' = "loop"
                            /\ ret' = ret
                       ELSE /\ state' = "Failed"
                            /\ pc' = "finally"
                            /\ ret' = ErrorReturn(
                                  IF facts = "ConnectError" THEN "Connection failed"
                                  ELSE "Unexpected error")
               ELSE /\ facts = "ok"
                    /\ state' = "Failed"
                    /\ pc' = "finally"
                    /\ ret' = ErrorReturn(
                          IF open = "ConnectError" THEN "Connection failed"
                          ELSE "Unexpected error")
                    /\ UNCHANGED <<connected, openCount>>
    /\ UNCHANGED <<program, response, job_id, events, rpcLog, closeCount,
                   publishFailed, transport, parserVars, concVars, loopVars>>

\* GeneratorRecord with the result of a failed report dropped
GeneratorRecordSuccessOnly(res, id, outcome) ==
    IF GeneratorResult(outcome).status = "success"
    THEN Put(res, id, GeneratorResult(outcome))
    ELSE res

\* line 525: results[report_type] = result
GeneratorRecord(res, id, outcome) == Put(res, id, GeneratorResult(outcome))

\* lines 523-525 with generate_report (401-467): one report type
GenReport(outcome) ==
    /\ program = "reports_generator"
    /\ pc = "loop"
    /\ index < Len(report_types)
    /\ LET report_type == report_types[index + 1]
       IN IF report_type \notin DOMAIN REPORT_REGISTRY
          THEN /\ outcome = "ok"
               /\ results' = Put(results, report_type,
                                 ErrorResult("Unknown report type"))
               /\ UNCHANGED rpcLog
          ELSE /\ rpcLog' = InvokeRpc(rpcLog, GeneratorRpcCall(report_type), outcome)
               /\ results' = GeneratorRecord(results, report_type, outcome)
    /\ index' = index + 1
    /\ state' = "Generating"
    /\ UNCHANGED <<program, pc, request, response, ret, job_id, report_types,
                   dev, connected, events, openCount, closeCount,
                   publishFailed, transport, parserVars, concVars, loopVars>>

\* lines 527-535: the loop is over, the return value
GenReturn ==
    /\ program = "reports_generator"
    /\ pc = "loop"
    /\ index = Len(report_types)
    /\ ret' = ReportsReturn(results, report_types)
    /\ state' = "Completed"
    /\ pc' = "finally"
    /\ UNCHANGED <<program, request, response, job_id, report_types, index,
                   results, dev, connected, events, openCount, rpcLog,
                   closeCount, publishFailed, transport, parserVars, concVars, loopVars>>

\* line 552: if device and device.connected
GeneratorCloses(d, isConnected) == d # "None" /\ isConnected

\* lines 551-553: finally; an exception of device.close() replaces the return
GenClose(outcome) ==
    /\ program = "reports_generator"
    /\ pc = "finally"
    /\ IF GeneratorCloses(dev, connected)
       THEN /\ closeCount' = closeCount + 1
            /\ connected' = IF outcome = "ok" THEN FALSE ELSE connected
            /\ ret' = IF outcome = "ok" THEN ret
                      ELSE [NoReturn EXCEPT !.status = "raised"]
       ELSE /\ outcome = "ok"
            /\ UNCHANGED <<closeCount, connected, ret>>
    /\ pc' = "done"
    /\ UNCHANGED <<program, state, request, response, job_id, report_types,
                   index, results, dev, events, openCount, rpcLog,
                   publishFailed, transport, parserVars, concVars, loopVars>>

(***************************************************************************)
(* The routes parsers.  A response tree is given by the number of its      *)
(* route elements, the number of its rt-entry elements and the text of the *)
(* route-count field of each of its route-table elements (a negative       *)
(* number stands for a text that is not all digits).  A returned row is    *)
(* named by its position among the elements found.                         *)
(***************************************************************************)
RouteCountTexts == {-1, 7, MaxRows}

Trees ==
    [route : 0..MaxRows, rt_entry : 0..MaxRows,
     route_table : SeqsUpTo(RouteCountTexts, MaxTables)]

\* int(total_routes) if total_routes.isdigit() else 0
RouteCountOf(text) == IF text >= 0 THEN text ELSE 0

RECURSIVE SumRouteCounts(_)
SumRouteCounts(tables) ==
    IF tables = <<>> THEN 0
    ELSE RouteCountOf(Head(tables)) + SumRouteCounts(Tail(tables))

\* reports_service.py parse_routes: every route element, counted by len
service_parse_routes(root) ==
    LET routes == [i \in 1..root.route |-> i]
    IN [keys |-> {"routes", "total_count", "format"},
        routes |-> routes, total |-> Len(routes)]

\* the loop of report_generator.py parse_routes stops at count >= 100
RoutesKept(n) == IF n >= 100 THEN 100 ELSE n

\* report_generator.py parse_routes: the first 100 rt-entry elements, and
\* the sum of the route-count fields of the route-table elements
generator_parse_routes(rpc_response) ==
    LET routes == [i \in 1..RoutesKept(rpc_response.rt_entry) |-> i]
    IN [keys |-> {"route_tables", "routes", "total_routes", "format"},
        routes |-> routes,
        total |-> SumRouteCounts(rpc_response.route_table)]

\* a job of the gateway parses a routes response with the service's parser
ServiceParseRoutes ==
    /\ program = "app_gateway"
    /\ parsed = NoParsed
    /\ parsed' = service_parse_routes(tree)
    /\ UNCHANGED <<jobVars, tree, concVars, loopVars>>

\* a job of the generator parses it with the generator's parser
GeneratorParseRoutes ==
    /\ program = "reports_generator"
    /\ parsed = NoParsed
    /\ parsed' = generator_parse_routes(tree)
    /\ UNCHANGED <<jobVars, tree, concVars, loopVars>>

(***************************************************************************)
(* Specifications.                                                         *)
(***************************************************************************)
Programs == {"app_gateway", "reports_generator"}

InitJob ==
    /\ program \in Programs
    /\ pc = "idle"
    /\ state = "None"
    /\ request = <<>>
    /\ response = NoResponse
    /\ ret = NoReturn
    /\ job_id = ""
    /\ report_types = <<>>
    /\ index = 0
    /\ results = EmptyMap
    /\ dev = "None"
    /\ connected = FALSE
    /\ events = <<>>
    /\ openCount = 0
    /\ rpcLog = <<>>
    /\ closeCount = 0
    /\ publishFailed = FALSE

NoBatch == [devices |-> <<>>, report_types |-> <<>>]
NoOverall ==
    [keys |-> {}, devices |-> EmptyMap, total_devices |-> 0,
     total_reports |-> 0, successful |-> 0, failed |-> 0]

\* generate_reports is not run
NoDevices ==
    /\ caller = "none"
    /\ batch = NoBatch
    /\ device_pos = 0
    /\ overall_results = EmptyMap
    /\ overall = NoOverall

\* no concurrent calls
NoConcurrency ==
    /\ jobs = <<>>
    /\ channels = <<>>
    /\ eventLoop = "free"

Init ==
    /\ InitJob
    /\ transport = "reliable"
    /\ tree = NoTree
    /\ parsed = NoParsed
    /\ NoConcurrency
    /\ NoDevices

Requests == SeqsUpTo(RequestIds, MaxTypes)

Next ==
    \/ /\ pc = "idle"
       /\ \E ids \in Requests, jid \in JobIds : generate_reports(ids, jid)
    \/ \E published \in Published : JobStart(published)
    \/ \E open \in OpenOutcomes, facts \in FactsOutcomes,
          published \in Published : JobOpen(open, facts, published)
    \/ \E outcome \in RpcOutcomes, generated, completed \in Published :
          JobReport(outcome, generated, completed)
    \/ \E published \in Published : JobFinalize(published)
    \/ \E summarised, finished \in Published :
          JobComplete(summarised, finished)
    \/ \E outcome \in CloseOutcomes : JobClose(outcome)
    \/ /\ pc = "idle"
       /\ \E ids \in Requests, open \in OpenOutcomes, facts \in FactsOutcomes :
             GenCall(ids, open, facts)
    \/ \E outcome \in RpcOutcomes : GenReport(outcome)
    \/ GenReturn
    \/ \E outcome \in CloseOutcomes : GenClose(outcome)

\* one request through one of the two programs
Spec == Init /\ [][Next]_vars

PublishInit ==
    /\ InitJob
    /\ transport = "unreliable"
    /\ tree = NoTree
    /\ parsed = NoParsed
    /\ NoConcurrency
    /\ NoDevices

\* the same, over a transport whose publish calls may return False or raise
PublishSpec == PublishInit /\ [][Next]_vars

ParserInit ==
    /\ InitJob
    /\ transport = "reliable"
    /\ tree \in Trees
    /\ parsed = NoParsed
    /\ NoConcurrency
    /\ NoDevices

ParserNext == ServiceParseRoutes \/ GeneratorParseRoutes

\* the routes parser of either program applied to a response tree
ParserSpec == ParserInit /\ [][ParserNext]_vars

(***************************************************************************)
(* Concurrent jobs on one event loop.  Each job is a coroutine with its    *)
(* own locals (the record jobs[j]); the pub/sub channels and the event     *)
(* loop's thread are what the jobs share.  A device operation takes time:  *)
(* one action starts it and another one receives its outcome.  A call      *)
(* handed to asyncio.to_thread leaves the event loop free meanwhile; a     *)
(* call made directly in the coroutine keeps the event loop's thread.      *)
(***************************************************************************)
Slots == {"a", "b"}

\* the requests the concurrent jobs are submitted with
ConcRequests == {<<"device_os">>, <<"bgp", "device_os">>, <<"bogus">>}

ConcOpenOutcomes == {"ok", "ConnectError"}
ConcRpcOutcomes == {"ok", "RpcError"}

\* the positions at which a job waits for the device
DeviceIO == {"opening", "calling", "closing"}

ChannelNames == {ServiceChannel(jid) : jid \in JobIds}

\* the locals of one call, before it starts
NewJob(jid) ==
    [job_id |-> jid, report_types |-> <<>>, pc |-> "idle", state |-> "None",
     index |-> 0, results |-> EmptyMap, opened |-> "", rpcs |-> <<>>]

\* publish_to_redis(channel, message): the message goes to the named channel
ConcPublish(chs, message) ==
    [chs EXCEPT ![message.channel] = publish_status_update(@, message)]

\* router: validation, then background_tasks.add_task(run_report_job)
ConcSubmit(j, ids) ==
    /\ program = "app_gateway"
    /\ eventLoop = "free"
    /\ jobs[j].pc = "idle"
    /\ jobs' = [jobs EXCEPT ![j] =
                   IF invalid_types(ids) # <<>> \/ ids = <<>>
                   THEN [@ EXCEPT !.pc = "rejected"]
                   ELSE [@ EXCEPT !.report_types = ids, !.state = "Queued",
                                  !.pc = "queued"]]
    /\ UNCHANGED <<channels, eventLoop, jobVars, parserVars, loopVars>>

\* lines 111-141: the connecting event, then await asyncio.to_thread(dev.open)
ConcJobStart(j) ==
    /\ program = "app_gateway"
    /\ eventLoop = "free"
    /\ jobs[j].pc = "queued"
    /\ channels' = ConcPublish(channels, ConnectingEvent(jobs[j].job_id))
    /\ jobs' = [jobs EXCEPT ![j].state = "Connecting", ![j].pc = "opening"]
    /\ UNCHANGED <<eventLoop, jobVars, parserVars, loopVars>>

\* lines 141-168 and 317-336: the open returned or raised; on failure the error
\* event, then await asyncio.to_thread(dev.close)
ConcJobOpened(j, open) ==
    /\ program = "app_gateway"
    /\ eventLoop = "free"
    /\ jobs[j].pc = "opening"
    /\ IF open = "ok"
       THEN /\ channels' = ConcPublish(channels, ConnectedEvent(jobs[j].job_id))
            /\ jobs' = [jobs EXCEPT ![j].opened = open,
                                    ![j].state = "Connected", ![j].pc = "loop"]
       ELSE /\ channels' = ConcPublish(channels, ErrorEvent(jobs[j].job_id))
            /\ jobs' = [jobs EXCEPT ![j].opened = open,
                                    ![j].state = "Failed", ![j].pc = "closing"]
    /\ UNCHANGED <<eventLoop, jobVars, parserVars, loopVars>>

\* lines 171-208: the generating event, then await asyncio.to_thread(dev.rpc)
ConcJobCall(j) ==
    /\ program = "app_gateway"
    /\ eventLoop = "free"
    /\ jobs[j].pc = "loop"
    /\ jobs[j].index < Len(jobs[j].report_types)
    /\ channels' =
          ConcPublish(channels,
              GeneratingEvent(jobs[j].job_id,
                              jobs[j].report_types[jobs[j].index + 1],
                              ReportProgress(jobs[j].index,
                                             Len(jobs[j].report_types))))
    /\ jobs' = [jobs EXCEPT ![j].state = "Generating", ![j].pc = "calling"]
    /\ UNCHANGED <<eventLoop, jobVars, parserVars, loopVars>>

\* lines 208-253: the RPC returned or raised; the result, the completion event
ConcJobAnswered(j, outcome) ==
    /\ program = "app_gateway"
    /\ eventLoop = "free"
    /\ jobs[j].pc = "calling"
    /\ LET id == jobs[j].report_types[jobs[j].index + 1]
       IN /\ jobs' = [jobs EXCEPT
                        ![j].rpcs = InvokeRpc(@, ServiceRpcCall(id), outcome),
                        ![j].results = ServiceRecord(@, id, outcome),
                        ![j].index = @ + 1,
                        ![j].pc = "loop"]
          /\ channels' =
                IF ServiceResult(outcome).status = "success"
                THEN ConcPublish(channels,
                         ReportCompleteEvent(
                             jobs[j].job_id, id,
                             ReportProgress(jobs[j].index,
                                            Len(jobs[j].report_types))))
                ELSE channels
    /\ UNCHANGED <<eventLoop, jobVars, parserVars, loopVars>>

\* lines 255-336: finalizing, summary and finished events, then
\* await asyncio.to_thread(dev.close)
ConcJobComplete(j) ==
    /\ program = "app_gateway"
    /\ eventLoop = "free"
    /\ jobs[j].pc = "loop"
    /\ jobs[j].index = Len(jobs[j].report_types)
    /\ channels' =
          ConcPublish(
              ConcPublish(
                  ConcPublish(channels, FinalizingEvent(jobs[j].job_id)),
                  SummaryEvent(jobs[j].job_id, jobs[j].results,
                               Len(jobs[j].report_types))),
              FinishedEvent(jobs[j].job_id))
    /\ jobs' = [jobs EXCEPT ![j].state = "Completed", ![j].pc = "closing"]
    /\ UNCHANGED <<eventLoop, jobVars, parserVars, loopVars>>

\* lines 336-341: the close returned or raised
ConcJobClosed(j) ==
    /\ program = "app_gateway"
    /\ eventLoop = "free"
    /\ jobs[j].pc = "closing"
    /\ jobs' = [jobs EXCEPT ![j].pc = "done"]
    /\ UNCHANGED <<channels, eventLoop, jobVars, parserVars, loopVars>>

\* generate_reports_for_device, lines 493-511: validation, then device.open()
\* called in the coroutine itself
ConcGenCall(j, ids) ==
    /\ program = "reports_generator"
    /\ eventLoop = "free"
    /\ jobs[j].pc = "idle"
    /\ IF ~validate_report_types(ids)[1]
       THEN /\ jobs' = [jobs EXCEPT ![j].report_types = ids, ![j].pc = "done"]
            /\ UNCHANGED eventLoop
       ELSE /\ jobs' = [jobs EXCEPT ![j].report_types = ids,
                                    ![j].state = "Connecting",
                                    ![j].pc = "opening"]
            /\ eventLoop' = j
    /\ UNCHANGED <<channels, jobVars, parserVars, loopVars>>

\* lines 511-521 and 537-553: device.open() returned or raised
ConcGenOpened(j, open) ==
    /\ program = "reports_generator"
    /\ eventLoop = j
    /\ jobs[j].pc = "opening"
    /\ IF open = "ok"
       THEN /\ jobs' = [jobs EXCEPT ![j].opened = open,
                                    ![j].state = "Connected", ![j].pc = "loop"]
            /\ UNCHANGED eventLoop
       ELSE /\ jobs' = [jobs EXCEPT ![j].opened = open,
                                    ![j].state = "Failed", ![j].pc = "done"]
            /\ eventLoop' = "free"
    /\ UNCHANGED <<channels, jobVars, parserVars, loopVars>>

\* lines 523-524 with generate_report 425-433: device.rpc called in the coroutine
ConcGenRpc(j) ==
    /\ program = "reports_generator"
    /\ eventLoop = j
    /\ jobs[j].pc = "loop"
    /\ jobs[j].index < Len(jobs[j].report_types)
    /\ jobs' = [jobs EXCEPT ![j].state = "Generating", ![j].pc = "calling"]
    /\ UNCHANGED <<channels, eventLoop, jobVars, parserVars, loopVars>>

\* generate_report 433-467 and line 525: the RPC returned or raised
ConcGenAnswered(j, outcome) ==
    /\ program = "reports_generator"
    /\ eventLoop = j
    /\ jobs[j].pc = "calling"
    /\ LET id == jobs[j].report_types[jobs[j].index + 1]
       IN jobs' = [jobs EXCEPT
                     ![j].rpcs = InvokeRpc(@, GeneratorRpcCall(id), outcome),
                     ![j].results = GeneratorRecord(@, id, outcome),
                     ![j].index = @ + 1,
                     ![j].pc = "loop"]
    /\ UNCHANGED <<channels, eventLoop, jobVars, parserVars, loopVars>>

\* lines 527-553: the return value is built, then device.close() in finally
ConcGenReturn(j) ==
    /\ program = "reports_generator"
    /\ eventLoop = j
    /\ jobs[j].pc = "loop"
    /\ jobs[j].index = Len(jobs[j].report_types)
    /\ jobs' = [jobs EXCEPT ![j].state = "Completed", ![j].pc = "closing"]
    /\ UNCHANGED <<channels, eventLoop, jobVars, parserVars, loopVars>>

\* line 553: device.close() returned; the coroutine ends
ConcGenClosed(j) ==
    /\ program = "reports_generator"
    /\ eventLoop = j
    /\ jobs[j].pc = "closing"
    /\ jobs' = [jobs EXCEPT ![j].pc = "done"]
    /\ eventLoop' = "free"
    /\ UNCHANGED <<channels, jobVars, parserVars, loopVars>>

ConcInit ==
    /\ InitJob
    /\ transport = "reliable"
    /\ tree = NoTree
    /\ parsed = NoParsed
    /\ \E ids \in [Slots -> JobIds] :
          /\ \A j, k \in Slots : j # k => ids[j] # ids[k]
          /\ jobs = [j \in Slots |-> NewJob(ids[j])]
    /\ channels = [c \in ChannelNames |-> <<>>]
    /\ eventLoop = "free"
    /\ NoDevices

ConcNext ==
    \/ \E j \in Slots, ids \in ConcRequests : ConcSubmit(j, ids)
    \/ \E j \in Slots : ConcJobStart(j)
    \/ \E j \in Slots, open \in ConcOpenOutcomes : ConcJobOpened(j, open)
    \/ \E j \in Slots : ConcJobCall(j)
    \/ \E j \in Slots, outcome \in ConcRpcOutcomes : ConcJobAnswered(j, outcome)
    \/ \E j \in Slots : ConcJobComplete(j)
    \/ \E j \in Slots : ConcJobClosed(j)
    \/ \E j \in Slots, ids \in ConcRequests : ConcGenCall(j, ids)
    \/ \E j \in Slots, open \in ConcOpenOutcomes : ConcGenOpened(j, open)
    \/ \E j \in Slots : ConcGenRpc(j)
    \/ \E j \in Slots, outcome \in ConcRpcOutcomes : ConcGenAnswered(j, outcome)
    \/ \E j \in Slots : ConcGenReturn(j)
    \/ \E j \in Slots : ConcGenClosed(j)

\* two calls of either program scheduled on one event loop
ConcSpec == ConcInit /\ [][ConcNext]_vars

(***************************************************************************)
(* The parsers and missing fields.  A leaf field of a response is absent,  *)
(* present with empty text, or present with text.  A response tree is one  *)
(* software-information element, one physical-interface element with at    *)
(* most one logical-interface in it, or one bgp-peer element.  Python's    *)
(* None is the string "None".                                              *)
(***************************************************************************)
FieldTexts == {"absent", "empty", "text"}

\* ElementTree's findtext(tag, default): the default for an absent element,
\* "" for an element without text
findtext(field, default) ==
    CASE field = "absent" -> default
      [] field = "empty" -> ""
      [] OTHER -> "text"

\* the responses given to the parsers
FieldTrees ==
    [kind : {"device_os"}, host_name : FieldTexts, product_model : FieldTexts,
     junos_version : FieldTexts, serial_number : FieldTexts]
    \cup [kind : {"interfaces"}, name : FieldTexts, mtu : FieldTexts,
          description : FieldTexts,
          logical_name : FieldTexts \cup {"no logical-interface"}]
    \cup [kind : {"bgp"}, peer_as : FieldTexts, peer_state : FieldTexts,
          flap_count : FieldTexts]

\* a parser returned its dict, or an exception left it
Returned(rows) ==
    [keys |-> {"format"}, status |-> "returned", format |-> "structured",
     rows |-> rows]
Raised(exception) ==
    [keys |-> {}, status |-> "raised", format |-> exception, rows |-> <<>>]

\* generator parse_device_os, its helper find_text: elem.strip() if elem else default
generator_find_text(field) == IF field = "text" THEN "text" ELSE "Unknown"

generator_parse_device_os(t) ==
    Returned(<<[hostname |-> generator_find_text(t.host_name),
                model |-> generator_find_text(t.product_model),
                version |-> generator_find_text(t.junos_version),
                serial_number |-> generator_find_text(t.serial_number)]>>)

\* service parse_device_os, its helper find_text: elem.text if elem is not None else None
service_find_text(field) == IF field = "text" THEN "text" ELSE "None"

service_parse_device_os(t) ==
    Returned(<<[hostname |-> service_find_text(t.host_name),
                model |-> service_find_text(t.product_model),
                version |-> service_find_text(t.junos_version),
                serial_number |-> service_find_text(t.serial_number)]>>)

\* generator parse_interfaces: an interface without a name text is skipped; a
\* logical interface whose name element has no text makes
\* logical_name.text.strip() raise AttributeError
generator_parse_interfaces(t) ==
    IF t.name # "text" THEN Returned(<<>>)
    ELSE IF t.logical_name = "empty" THEN Raised("AttributeError")
    ELSE Returned(<<[name |-> "text",
                     mtu |-> findtext(t.mtu, "Unknown"),
                     description |-> findtext(t.description, ""),
                     logical_interfaces |->
                         IF t.logical_name = "text" THEN <<"text">> ELSE <<>>]>>)

\* service parse_interfaces: findtext without a default, no strip
service_parse_interfaces(t) ==
    IF t.name # "text" THEN Returned(<<>>)
    ELSE Returned(<<[name |-> "text",
                     mtu |-> findtext(t.mtu, "None"),
                     description |-> findtext(t.description, "None"),
                     logical_interfaces |->
                         CASE t.logical_name = "text" -> <<"text">>
                           [] t.logical_name = "empty" -> <<"None">>
                           [] OTHER -> <<>>]>>)

generator_parse_bgp(t) ==
    Returned(<<[peer_as |-> findtext(t.peer_as, "Unknown"),
                state |-> findtext(t.peer_state, "Unknown"),
                flaps |-> findtext(t.flap_count, "0")]>>)

service_parse_bgp(t) ==
    Returned(<<[peer_as |-> findtext(t.peer_as, "None"),
                state |-> findtext(t.peer_state, "None"),
                flaps |-> findtext(t.flap_count, "None")]>>)

\* the parser the program has for the kind of the response
ParseFields(t) ==
    CASE program = "app_gateway" /\ t.kind = "device_os" -> service_parse_device_os(t)
      [] program = "app_gateway" /\ t.kind = "interfaces" -> service_parse_interfaces(t)
      [] program = "app_gateway" /\ t.kind = "bgp" -> service_parse_bgp(t)
      [] program = "reports_generator" /\ t.kind = "device_os" ->
             generator_parse_device_os(t)
      [] program = "reports_generator" /\ t.kind = "interfaces" ->
             generator_parse_interfaces(t)
      [] OTHER -> generator_parse_bgp(t)

\* service parse_rpc_response, lines 359-378: the parser chosen by report type
ServiceParseFields ==
    /\ program = "app_gateway"
    /\ parsed = NoParsed
    /\ parsed' = ParseFields(tree)
    /\ UNCHANGED <<jobVars, tree, concVars, loopVars>>

\* generator generate_report, lines 436-444: parser = globals().get(parser_name)
GeneratorParseFields ==
    /\ program = "reports_generator"
    /\ parsed = NoParsed
    /\ parsed' = ParseFields(tree)
    /\ UNCHANGED <<jobVars, tree, concVars, loopVars>>

FieldInit ==
    /\ InitJob
    /\ transport = "reliable"
    /\ tree \in FieldTrees
    /\ parsed = NoParsed
    /\ NoConcurrency
    /\ NoDevices

FieldNext == ServiceParseFields \/ GeneratorParseFields

\* a parser of either program applied to a response with missing fields
FieldSpec == FieldInit /\ [][FieldNext]_vars

(***************************************************************************)
(* generate_reports: the loop over a list of devices.  Each device is one  *)
(* batch of generate_reports_for_device, the steps GenCall, GenReport,      *)
(* GenReturn and GenClose above, on a device of its own.                   *)
(***************************************************************************)
DeviceLists == {<<>>, <<"r1">>, <<"r1", "r2">>, <<"r1", "r1">>}

\* the report_types given to generate_reports: passed on to every device
DeviceRequests ==
    {<<>>, <<"bgp">>, <<"bgp", "routes">>, <<"bgp", "bgp">>, <<"bogus", "bgp">>}

\* r.get(key, default) on a returned dict
DictGet(r, key, default) == IF key \in r.keys THEN r[key] ELSE default

\* sum(r.get(key, 0) for r in overall_results.values())
RECURSIVE SumOfValues(_, _, _)
SumOfValues(m, hosts, key) ==
    IF hosts = {} THEN 0
    ELSE LET h == CHOOSE x \in hosts : TRUE
         IN DictGet(m[h], key, 0) + SumOfValues(m, hosts \ {h}, key)

\* lines 587-603: the dict generate_reports returns
OverallReturn(devs, types, res) ==
    [keys |-> {"devices", "total_devices", "report_types", "timestamp", "summary"},
     devices |-> res,
     total_devices |-> Len(devs),
     total_reports |-> Len(devs) * Len(types),
     successful |-> SumOfValues(res, DOMAIN res, "successful"),
     failed |-> SumOfValues(res, DOMAIN res, "failed")]

\* lines 555-576: the batch, overall_results = {}
GenerateReportsCall(devs, types) ==
    /\ program = "reports_generator"
    /\ caller = "idle"
    /\ batch' = [devices |-> devs, report_types |-> types]
    /\ overall_results' = EmptyMap
    /\ device_pos' = 0
    /\ caller' = "loop"
    /\ UNCHANGED <<overall, jobVars, parserVars, concVars>>

\* lines 578-584: the next device's generate_reports_for_device is awaited
DeviceCall(open, facts) ==
    /\ caller = "loop"
    /\ device_pos < Len(batch.devices)
    /\ GenCall(batch.report_types, open, facts)

\* the loop left at the first device whose batch returned an error
DeviceReturnedStopsOnError(returned) ==
    returned.status = "raised" \/ returned.status = "error"

\* an exception of the awaited batch is not caught in generate_reports
DeviceRaised(returned) == returned.status = "raised"

\* lines 578-585: the awaited batch is over: overall_results[device_hostname]
\* = result, or its exception leaves generate_reports; the next device is a
\* device of its own
DeviceReturned ==
    /\ program = "reports_generator"
    /\ caller = "loop"
    /\ pc = "done"
    /\ IF DeviceRaised(ret)
       THEN /\ caller' = "raised"
            /\ UNCHANGED <<device_pos, overall_results, pc, state, request,
                           ret, report_types, index, results, dev, connected,
                           openCount, rpcLog, closeCount>>
       ELSE /\ overall_results' =
                   Put(overall_results, batch.devices[device_pos + 1], ret)
            /\ device_pos' = device_pos + 1
            /\ pc' = "idle"
            /\ state' = "None"
            /\ request' = <<>>
            /\ ret' = NoReturn
            /\ report_types' = <<>>
            /\ index' = 0
            /\ results' = EmptyMap
            /\ dev' = "None"
            /\ connected' = FALSE
            /\ openCount' = 0
            /\ rpcLog' = <<>>
            /\ closeCount' = 0
            /\ UNCHANGED caller
    /\ UNCHANGED <<program, response, job_id, events, publishFailed,
                   transport, batch, overall, parserVars, concVars>>

\* lines 587-603: the loop is over, the return value
GenerateReportsReturn ==
    /\ program = "reports_generator"
    /\ caller = "loop"
    /\ pc = "idle"
    /\ device_pos = Len(batch.devices)
    /\ overall' = OverallReturn(batch.devices, batch.report_types, overall_results)
    /\ caller' = "returned"
    /\ UNCHANGED <<batch, device_pos, overall_results, jobVars, parserVars,
                   concVars>>

DevicesInit ==
    /\ InitJob
    /\ program = "reports_generator"
    /\ transport = "reliable"
    /\ tree = NoTree
    /\ parsed = NoParsed
    /\ NoConcurrency
    /\ caller = "idle"
    /\ batch = NoBatch
    /\ device_pos = 0
    /\ overall_results = EmptyMap
    /\ overall = NoOverall

DevicesNext ==
    \/ \E devs \in DeviceLists, types \in DeviceRequests :
          GenerateReportsCall(devs, types)
    \/ \E open \in OpenOutcomes, facts \in FactsOutcomes : DeviceCall(open, facts)
    \/ /\ caller = "loop"
       /\ \E outcome \in RpcOutcomes : GenReport(outcome)
    \/ caller = "loop" /\ GenReturn
    \/ /\ caller = "loop"
       /\ \E outcome \in CloseOutcomes : GenClose(outcome)
    \/ DeviceReturned
    \/ GenerateReportsReturn

\* generate_reports over a list of devices
DevicesSpec == DevicesInit /\ [][DevicesNext]_vars

(***************************************************************************)
(* Properties.                                                             *)
(***************************************************************************)
RpcFailures == {"RpcError", "Exception"}

\* position i holds the last request of its id in the list ids
LastOfItsId(ids, i) == \A j \in DOMAIN ids : j > i => ids[j] # ids[i]

\* the events that carry a progress value, in the order published
HasProgress(e) == "progress" \in e.keys

\* C1: per-report isolation.  Once an RPC has been invoked the job is never
\* Failed and ends Completed; in a Completed job every requested id was
\* invoked, in request order, whatever failed before it, an id whose RPC
\* failed has an error result and an id whose RPC and parsing succeeded has
\* a success result (for an id requested twice, its last call decides).
C1_PerReportIsolation ==
    /\ rpcLog # <<>> => state # "Failed"
    /\ (pc = "done" /\ rpcLog # <<>>) => state = "Completed"
    /\ state = "Completed" =>
          /\ Len(rpcLog) = Len(report_types)
          /\ \A i \in DOMAIN report_types :
                /\ rpcLog[i].report_type = report_types[i]
                /\ LastOfItsId(report_types, i) =>
                      /\ report_types[i] \in DOMAIN results
                      /\ rpcLog[i].outcome \in RpcFailures =>
                            results[report_types[i]].status = "error"
                      /\ rpcLog[i].outcome = "ok" =>
                            results[report_types[i]].status = "success"

\* three distinct report types, the RPC of the second one failed
C1_Witness ==
    /\ program = "app_gateway"
    /\ state = "Completed"
    /\ report_types = <<"device_os", "bgp", "routes">>
    /\ rpcLog[1].outcome = "ok"
    /\ rpcLog[2].outcome = "RpcError"
    /\ rpcLog[3].outcome = "ok"
    /\ results["device_os"].status = "success"
    /\ results["bgp"].status = "error"
    /\ results["routes"].status = "success"

\* C2: in a Completed job the keys of the result mapping are exactly the
\* requested report type ids.
C2_ResultKeysAreRequestedIds ==
    state = "Completed" =>
        /\ DOMAIN results = Range(report_types)
        /\ Range(report_types) = Range(request)

\* a Completed job of the generator with one failure and one success
C2_Witness ==
    /\ program = "reports_generator"
    /\ state = "Completed"
    /\ pc = "done"
    /\ Cardinality(DOMAIN results) = 2
    /\ \E a, b \in DOMAIN results :
          results[a].status = "error" /\ results[b].status = "success"

\* C3: a parser failure on a report's response is recorded as that report
\* type's error result, and the job goes on with the remaining types.
C3_ParserFailureIsErrorResult ==
    /\ \A i \in DOMAIN rpcLog :
          (/\ rpcLog[i].outcome = "malformed"
           /\ \A j \in DOMAIN rpcLog :
                 j > i => rpcLog[j].report_type # rpcLog[i].report_type)
          => results[rpcLog[i].report_type].status = "error"
    /\ (pc = "done" /\ rpcLog # <<>>) =>
          state = "Completed" /\ Len(rpcLog) = Len(report_types)

C5_ProgressNonDecreasing ==
    \A i, j \in DOMAIN events :
        (i < j /\ HasProgress(events[i]) /\ HasProgress(events[j]))
        => events[i].progress <= events[j].progress

\* a Completed job of three report types, one failed and one succeeded
C5_Witness ==
    /\ program = "app_gateway"
    /\ state = "Completed"
    /\ Len(report_types) = 3
    /\ \E a, b \in DOMAIN results :
          results[a].status = "error" /\ results[b].status = "success"
    /\ \E i \in DOMAIN events : events[i].progress = 80

\* C6: a job of the service has published progress 100 exactly when it is
\* Completed, and then 100 is the last value published.
C6_FullProgressIffCompleted ==
    program = "app_gateway" =>
        /\ state = "Completed" <=>
              \E i \in DOMAIN events :
                  HasProgress(events[i]) /\ events[i].progress = 100
        /\ state = "Completed" =>
              /\ HasProgress(events[Len(events)])
              /\ events[Len(events)].progress = 100

\* a Completed job has ended; its last event is the finished event, at 100
C6_Witness ==
    /\ program = "app_gateway"
    /\ pc = "done"
    /\ state = "Completed"
    /\ events[Len(events)].status = "finished"
    /\ events[Len(events)].progress = 100

\* C7: a request naming an unregistered id is rejected whole: no job is
\* queued, no session opened, no RPC invoked, no result entry created.
C7_InvalidRequestRejectedWhole ==
    (pc # "idle" /\ \E i \in DOMAIN request : request[i] \notin ReportIds) =>
        /\ state = "None"
        /\ dev = "None"
        /\ openCount = 0
        /\ closeCount = 0
        /\ rpcLog = <<>>
        /\ events = <<>>
        /\ DOMAIN results = {}
        /\ program = "app_gateway" =>
              /\ pc = "rejected"
              /\ response.status_code = 400
              /\ response.status # "queued"
        /\ program = "reports_generator" =>
              /\ ret.status = "error"
              /\ DOMAIN ret.reports = {}

\* the router has answered a request of two valid ids and an unknown one
C7_Witness ==
    /\ program = "app_gateway"
    /\ request = <<"device_os", "bgp", "bogus">>
    /\ pc = "rejected"
    /\ response.status_code = 400

\* C8: no id absent from the registry is ever a key of a result mapping:
\* not of the job's results, not of a summary event, not of a return value.
C8_NoUnregisteredResultKey ==
    /\ DOMAIN results \subseteq ReportIds
    /\ DOMAIN ret.reports \subseteq ReportIds
    /\ \A i \in DOMAIN events : DOMAIN events[i].reports \subseteq ReportIds

\* the generator has returned from a request that names an unknown id
C8_Witness ==
    /\ program = "reports_generator"
    /\ pc = "done"
    /\ request = <<"device_os", "bogus">>
    /\ "bogus" \notin DOMAIN ret.reports
    /\ "bogus" \notin DOMAIN results

\* C9: when the open of the session fails the job is Failed at once: no
\* RPC, no per-report result or event; the service publishes the error
\* event and no summary, the generator returns an error without reports.
C9_ConnectFailureFailsJob ==
    (dev = "Device" /\ openCount = 0) =>
        /\ state = "Failed"
        /\ rpcLog = <<>>
        /\ DOMAIN results = {}
        /\ \A i \in DOMAIN events :
              /\ events[i].event_type # "REPORT_COMPLETE"
              /\ events[i].step # "generating_report"
        /\ program = "app_gateway" =>
              /\ events # <<>>
              /\ events[Len(events)].event_type = "error"
        /\ program = "reports_generator" =>
              /\ ret.status = "error"
              /\ DOMAIN ret.reports = {}

\* the service's job has ended after a failed open
C9_Witness ==
    /\ program = "app_gateway"
    /\ pc = "done"
    /\ state = "Failed"
    /\ openCount = 0
    /\ events[Len(events)].event_type = "error"

\* C10: for more than 100 row elements the routes parser of a job returns
\* exactly 100 rows and reports as count the sum of the route-count fields;
\* for 100 or fewer it returns every row.
RowsOf(t) == IF program = "app_gateway" THEN t.route ELSE t.rt_entry

C10_RoutesCappedAtHundred ==
    parsed # NoParsed =>
        /\ RowsOf(tree) > 100 =>
              /\ Len(parsed.routes) = 100
              /\ parsed.total = SumRouteCounts(tree.route_table)
        /\ RowsOf(tree) <= 100 => Len(parsed.routes) = RowsOf(tree)

\* position i holds the last processed request of its id among the first n
LastProcessed(ids, i, n) == \A j \in (i + 1)..n : ids[j] # ids[i]

\* C11: failures of the pub/sub transport never fail the job.  Whatever the
\* publish calls did, the job's state, its RPC invocations and its result
\* mapping are those fixed by the request and the device alone: a Failed job
\* failed in the connection phase (no connected event, no RPC, no result),
\* and a job past the connection has invoked one RPC per processed report
\* type, in request order, has recorded for each processed id the result of
\* its last RPC outcome, and ends Completed with every type processed.
C11_PublishFailureNeverFailsJob ==
    program = "app_gateway" =>
        /\ state = "Failed" =>
              /\ rpcLog = <<>>
              /\ results = EmptyMap
              /\ \A i \in DOMAIN events : events[i].step # "connected"
        /\ (pc \in {"loop", "complete", "finally", "done"} /\ state # "Failed") =>
              /\ Len(rpcLog) = index
              /\ \A i \in 1..index :
                    /\ rpcLog[i].report_type = report_types[i]
                    /\ LastProcessed(report_types, i, index) =>
                          /\ report_types[i] \in DOMAIN results
                          /\ results[report_types[i]] =
                                ServiceResult(rpcLog[i].outcome)
        /\ (pc = "done" /\ state # "Failed") =>
              /\ state = "Completed"
              /\ index = Len(report_types)

\* a job of three report types, one RPC failed, some publish call returned
\* False or raised, and the job is Completed
C11_Witness ==
    /\ program = "app_gateway"
    /\ pc = "done"
    /\ state = "Completed"
    /\ publishFailed
    /\ Len(report_types) = 3
    /\ rpcLog[2].outcome = "RpcError"
    /\ results[report_types[1]].status = "success"
    /\ results[report_types[2]].status = "error"

\* the per-report completion event and the summary event share event_type
IsReportComplete(e) == e.event_type = "REPORT_COMPLETE" /\ "report_type" \in e.keys
IsSummary(e) == e.event_type = "REPORT_COMPLETE" /\ "summary" \in e.keys
IsGenerating(e) == e.step = "generating_report"

\* the place of an event in the state-machine order
Phase(e) ==
    CASE e.step = "connecting" -> 1
      [] e.step = "connected" -> 2
      [] IsGenerating(e) \/ IsReportComplete(e) -> 3
      [] e.step = "finalizing" -> 4
      [] IsSummary(e) -> 5
      [] OTHER -> 6

\* the number of generating events among the first i events
GeneratingUpTo(log, i) == Cardinality({j \in 1..i : IsGenerating(log[j])})

\* C12: events are published in state-machine order.  The first event is
\* the connecting event; phases never go back; connecting, connected,
\* finalizing and the terminal event occur at most once; the k-th generating
\* event is the one of the k-th requested report type and comes after the
\* connected event; a per-report completion event directly follows the
\* generating event of the same report type, and does follow it when that
\* report succeeded; nothing follows the terminal event.
C12_EventsInStateMachineOrder ==
    program = "app_gateway" =>
        /\ events # <<>> => events[1].step = "connecting"
        /\ \A i \in 1..(Len(events) - 1) :
              /\ Phase(events[i]) <= Phase(events[i + 1])
              /\ Phase(events[i]) \in {1, 2, 4, 5, 6} =>
                    Phase(events[i]) < Phase(events[i + 1])
        /\ \A i \in DOMAIN events :
              /\ IsGenerating(events[i]) =>
                    /\ \E j \in 1..(i - 1) : events[j].step = "connected"
                    /\ LET k == GeneratingUpTo(events, i)
                       IN /\ k <= Len(report_types)
                          /\ events[i].report_type = report_types[k]
                          /\ (k <= Len(rpcLog)
                                /\ ServiceResult(rpcLog[k].outcome).status = "success")
                             => /\ i < Len(events)
                                /\ IsReportComplete(events[i + 1])
              /\ IsReportComplete(events[i]) =>
                    /\ i > 1
                    /\ IsGenerating(events[i - 1])
                    /\ events[i - 1].report_type = events[i].report_type
        /\ state = "Completed" =>
              /\ GeneratingUpTo(events, Len(events)) = Len(report_types)
              /\ events[2].step = "connected"
              /\ events[Len(events) - 2].step = "finalizing"
              /\ events[Len(events)].status = "finished"

\* a Completed job of three report types whose second RPC failed: ten events
C12_Witness ==
    /\ program = "app_gateway"
    /\ state = "Completed"
    /\ report_types = <<"bgp", "device_os", "routes">>
    /\ rpcLog[1].outcome = "ok"
    /\ rpcLog[2].outcome = "RpcError"
    /\ rpcLog[3].outcome = "ok"
    /\ Len(events) = 10
    /\ IsGenerating(events[3]) /\ IsReportComplete(events[4])
    /\ IsGenerating(events[5]) /\ IsGenerating(events[6])
    /\ IsReportComplete(events[7])
    /\ events[8].step = "finalizing"

\* the descriptor the running program holds for a report type id
DescriptorOf(id) ==
    IF program = "app_gateway"
    THEN [rpc |-> REPORT_TYPES[id].rpc, rpc_args |-> REPORT_TYPES[id].rpc_args,
          timeout |-> REPORT_TYPES[id].timeout]
    ELSE [rpc |-> REPORT_REGISTRY[id].rpc,
          rpc_args |-> REPORT_REGISTRY[id].rpc_args,
          timeout |-> REPORT_REGISTRY[id].timeout]

\* the invocations carry the descriptor's remote-call name and argument set
RpcNameAndArgsOfDescriptor ==
    \A i \in DOMAIN rpcLog :
        /\ rpcLog[i].rpc = DescriptorOf(rpcLog[i].report_type).rpc
        /\ rpcLog[i].args = DescriptorOf(rpcLog[i].report_type).rpc_args

\* C13: every RPC invocation made for a report type uses the descriptor's
\* remote-call name, its argument set and a per-call timeout equal to the
\* descriptor's timeout value.
C13_RpcUsesDescriptorTimeout ==
    /\ RpcNameAndArgsOfDescriptor
    /\ \A i \in DOMAIN rpcLog :
          rpcLog[i].timeout = DescriptorOf(rpcLog[i].report_type).timeout

\* C14: a request with an empty list of report type ids is rejected before
\* execution begins on every submission path: no session is opened and the
\* job is in none of the states from Connecting to Completed.
C14_EmptyRequestRejected ==
    (pc # "idle" /\ request = <<>>) =>
        /\ openCount = 0
        /\ dev = "None"
        /\ state \notin {"Connecting", "Connected", "Generating", "Finalizing",
                         "Completed"}

\* C15: a Completed job has published its final summary (the counts, the
\* device facts and the full result mapping) on the channel of its own job
\* id, exactly once, and the status event marked finished is its last event;
\* a job that is not Completed has published no summary event.
C15_SummaryDeliveredFinishedLast ==
    program = "app_gateway" =>
        /\ state = "Completed" =>
              LET n == Len(events)
              IN /\ n >= 2
                 /\ events[n].event_type = "status"
                 /\ events[n].status = "finished"
                 /\ events[n].channel = ServiceChannel(job_id)
                 /\ IsSummary(events[n - 1])
                 /\ events[n - 1].channel = ServiceChannel(job_id)
                 /\ events[n - 1].job_id = job_id
                 /\ {"summary", "device_info", "reports"} \subseteq events[n - 1].keys
                 /\ events[n - 1].reports = results
                 /\ events[n - 1].successful = CountStatus(results, "success")
                 /\ events[n - 1].failed = CountStatus(results, "error")
                 /\ events[n - 1].successful + events[n - 1].failed
                        = Cardinality(DOMAIN results)
                 /\ \A i \in 1..(n - 2) :
                       ~IsSummary(events[i]) /\ events[i].status # "finished"
        /\ state # "Completed" =>
              \A i \in DOMAIN events :
                  ~IsSummary(events[i]) /\ events[i].status # "finished"

\* a finished job of two report types, one succeeded and one failed
C15_Witness ==
    /\ program = "app_gateway"
    /\ pc = "done"
    /\ state = "Completed"
    /\ Len(report_types) = 2
    /\ IsSummary(events[Len(events) - 1])
    /\ events[Len(events) - 1].successful = 1
    /\ events[Len(events) - 1].failed = 1
    /\ events[Len(events)].status = "finished"

\* the event types of the published schema
SchemaEventTypes == {"status", "report_complete", "error"}

\* C16: every event a job publishes has event_type equal to one of "status",
\* "report_complete" or "error", carries the job's own job_id, and has a
\* data object holding step, message and a progress value between 0 and 100.
C16_EventsFollowSchema ==
    \A i \in DOMAIN events :
        /\ events[i].event_type \in SchemaEventTypes
        /\ events[i].job_id = job_id
        /\ {"step", "message", "progress"} \subseteq events[i].keys
        /\ events[i].progress \in 0..100

\* the part of the schema every event does meet: the job's own id, and a
\* progress value between 0 and 100 wherever a progress key is present
EventsCarryOwnJobId ==
    \A i \in DOMAIN events :
        /\ events[i].job_id = job_id
        /\ HasProgress(events[i]) => events[i].progress \in 0..100

\* the events of job j among the messages a channel received
EventsOf(log, jid) == SelectSeq(log, LAMBDA e : e.job_id = jid)

\* the result a job running alone records for the report type at position i
AloneResult(j, i) ==
    IF program = "app_gateway"
    THEN ServiceResult(jobs[j].rpcs[i].outcome)
    ELSE GeneratorResult(jobs[j].rpcs[i].outcome)

\* C17: concurrent jobs do not interfere.  In every interleaving of two jobs
\* with different job ids, each job's result mapping holds only its own
\* requested ids with the results of its own RPC outcomes, every message on
\* a channel carries the job id that channel is named after, a job's events
\* are nowhere else, and a finished job is Completed exactly when its own
\* session opened and Failed exactly when it did not.
C17_ConcurrentJobsDoNotInterfere ==
    /\ \A j \in Slots :
          /\ DOMAIN jobs[j].results \subseteq Range(jobs[j].report_types)
          /\ Len(jobs[j].rpcs) = jobs[j].index
          /\ \A i \in 1..jobs[j].index :
                /\ jobs[j].rpcs[i].report_type = jobs[j].report_types[i]
                /\ LastProcessed(jobs[j].report_types, i, jobs[j].index) =>
                      jobs[j].results[jobs[j].report_types[i]] = AloneResult(j, i)
          /\ (jobs[j].pc = "done" /\ jobs[j].opened = "ok") =>
                /\ jobs[j].state = "Completed"
                /\ jobs[j].index = Len(jobs[j].report_types)
          /\ (jobs[j].pc = "done" /\ jobs[j].opened = "ConnectError") =>
                /\ jobs[j].state = "Failed"
                /\ jobs[j].results = EmptyMap
          /\ jobs[j].state \in {"Completed", "Failed"} =>
                jobs[j].opened = (IF jobs[j].state = "Completed" THEN "ok"
                                  ELSE "ConnectError")
    /\ \A c \in DOMAIN channels :
          \A i \in DOMAIN channels[c] :
              /\ channels[c][i].job_id = c[2]
              /\ channels[c][i].channel = c
    /\ \A j \in Slots :
          \A c \in DOMAIN channels :
              c[2] # jobs[j].job_id => EventsOf(channels[c], jobs[j].job_id) = <<>>
    /\ \A j \in Slots :
          (program = "app_gateway" /\ jobs[j].state = "Completed") =>
              \E c \in DOMAIN channels :
                  /\ c[2] = jobs[j].job_id
                  /\ Len(channels[c]) =
                        5 + Len(jobs[j].rpcs)
                          + Cardinality({i \in DOMAIN jobs[j].rpcs :
                                           jobs[j].rpcs[i].outcome = "ok"})
                  /\ channels[c][Len(channels[c]) - 1].reports = jobs[j].results

\* both jobs wait for their second RPC at the same time, each after its own
\* outcome of the same first report type
C17_Witness ==
    /\ program = "app_gateway"
    /\ jobs["a"].job_id # jobs["b"].job_id
    /\ jobs["a"].pc = "calling" /\ jobs["b"].pc = "calling"
    /\ jobs["a"].index = 1 /\ jobs["b"].index = 1
    /\ jobs["a"].report_types = <<"bgp", "device_os">>
    /\ jobs["b"].report_types = <<"bgp", "device_os">>
    /\ jobs["a"].results["bgp"].status = "error"
    /\ jobs["b"].results["bgp"].status = "success"
    /\ Len(channels[ServiceChannel(jobs["a"].job_id)]) = 4
    /\ Len(channels[ServiceChannel(jobs["b"].job_id)]) = 5

\* C18: session open, every RPC invocation and session close run off the
\* event loop on every execution path: while a job waits for the device
\* the event loop is free, so another job can take its next step.
C18_DeviceIOOffTheEventLoop ==
    \A j \in Slots : jobs[j].pc \in DeviceIO => eventLoop = "free"

\* the gateway's jobs do leave the event loop free while they wait
GatewayDeviceIOOffTheEventLoop ==
    program = "app_gateway" => C18_DeviceIOOffTheEventLoop

\* C19: no retries.  In a job past Connected one RPC has been invoked for
\* each report type processed so far, in request order, whether it succeeded
\* or failed; when the job has ended, the number of RPC invocations is the
\* number of requested report types.
C19_OneRpcPerRequestedType ==
    /\ Len(rpcLog) <= Len(report_types)
    /\ \A i \in DOMAIN rpcLog : rpcLog[i].report_type = report_types[i]
    /\ pc = "loop" => Len(rpcLog) = index
    /\ (pc = "done" /\ openCount = 1 /\ state # "Failed") =>
          /\ Len(rpcLog) = Len(report_types)
          /\ \A id \in Range(report_types) :
                Cardinality({i \in DOMAIN rpcLog : rpcLog[i].report_type = id})
                    = Cardinality({i \in DOMAIN report_types : report_types[i] = id})

\* three report types requested, the first RPC raised an exception, the
\* second a protocol error, the third succeeded: three invocations
C19_Witness ==
    /\ pc = "done"
    /\ state = "Completed"
    /\ report_types = <<"routes", "bgp", "device_os">>
    /\ Len(rpcLog) = 3
    /\ rpcLog[1].outcome = "Exception"
    /\ rpcLog[2].outcome = "RpcError"
    /\ rpcLog[3].outcome = "ok"

\* C20: for the request a call was made with, validate_report_types returns
\* as invalid the requested ids that are not registry keys (as a set: the
\* requested ids minus the registry keys), in request order, and valid is
\* true exactly when that collection is empty; the call was refused with
\* "Invalid report types" exactly when valid is false.  The router's
\* invalid_types is the same collection.
C20_ValidateReturnsIdsMinusRegistry ==
    pc # "idle" =>
        LET valid == validate_report_types(request)[1]
            invalid == validate_report_types(request)[2]
        IN /\ Range(invalid) = Range(request) \ DOMAIN REPORT_REGISTRY
           /\ \A i \in DOMAIN invalid : invalid[i] \notin DOMAIN REPORT_REGISTRY
           /\ Len(invalid) =
                 Cardinality({i \in DOMAIN request :
                                request[i] \notin DOMAIN REPORT_REGISTRY})
           /\ valid <=> (invalid = <<>>)
           /\ valid <=> (Range(request) \subseteq DOMAIN REPORT_REGISTRY)
           /\ program = "reports_generator" =>
                 (~valid <=> ret.error = "Invalid report types")
           /\ program = "app_gateway" =>
                 /\ Range(invalid_types(request)) = Range(invalid)
                 /\ ~valid => response.status_code = 400

\* a request mixing registered and unregistered ids, refused by the generator
C20_Witness ==
    /\ program = "reports_generator"
    /\ pc = "done"
    /\ request = <<"bogus", "bgp", "bogus">>
    /\ validate_report_types(request) = <<FALSE, <<"bogus", "bogus">> >>
    /\ ret.error = "Invalid report types"
    /\ openCount = 0

\* what does hold of the channel: all events of a job are on the one channel
\* named after its job id, and different job ids give different names
EventsOnOneChannelOfJobId ==
    /\ \A i \in DOMAIN events : events[i].channel = ServiceChannel(job_id)
    /\ \A j, k \in JobIds : j # k => ServiceChannel(j) # ServiceChannel(k)

\* C21: all events of a job are published to a single channel whose name is
\* a function of the job id alone, different for different job ids, and this
\* channel is the one the submit response announced for the job id.
C21_EventsOnAnnouncedChannel ==
    /\ EventsOnOneChannelOfJobId
    /\ \A i \in DOMAIN events : events[i].channel = response.ws_channel

\* no row of the returned record holds None in place of a value
NoFieldIsNone ==
    \A i \in DOMAIN parsed.rows :
        \A k \in DOMAIN parsed.rows[i] :
            /\ parsed.rows[i][k] # "None"
            /\ k = "logical_interfaces" =>
                  \A n \in DOMAIN parsed.rows[i][k] : parsed.rows[i][k][n] # "None"

\* C22: every parser tolerates missing fields: whatever subset of the leaf
\* fields of the response is absent or has empty text, the parser does not
\* raise and returns a structured record.
C22_ParsersTolerateMissingFields ==
    parsed # NoParsed =>
        /\ parsed.status = "returned"
        /\ parsed.format = "structured"

\* the generator's parsers, when they return, put a value in every field
GeneratorReturnedFieldsHaveValue ==
    (program = "reports_generator" /\ parsed # NoParsed
        /\ parsed.status = "returned") => NoFieldIsNone

\* the service's parsers never raise
ServiceParsersReturn ==
    (program = "app_gateway" /\ parsed # NoParsed) => parsed.status = "returned"

\* the number of requested ids (positions of the request) whose recorded
\* result has the status s
RequestedWithStatus(s) ==
    Cardinality({i \in DOMAIN report_types :
                    /\ report_types[i] \in DOMAIN results
                    /\ results[report_types[i]].status = s})

\* the counts of a Completed job's summary: the summary event of the
\* service, the return value of the generator
SummaryCounts ==
    IF program = "app_gateway"
    THEN [total |-> events[Len(events) - 1].total,
          successful |-> events[Len(events) - 1].successful,
          failed |-> events[Len(events) - 1].failed]
    ELSE [total |-> ret.total_reports, successful |-> ret.successful,
          failed |-> ret.failed]

\* C23: in the summary of a Completed job, successful is the number of
\* requested ids whose result is success, failed the number whose result is
\* error, and successful + failed = total, also for a request that names a
\* report type more than once.
C23_SummaryCountsAddUp ==
    (state = "Completed" /\ pc = "finally") =>
        /\ SummaryCounts.successful = RequestedWithStatus("success")
        /\ SummaryCounts.failed = RequestedWithStatus("error")
        /\ SummaryCounts.successful + SummaryCounts.failed = SummaryCounts.total

\* for a request without repeated ids the counts do add up
SummaryCountsAddUpWithoutRepeats ==
    (\A i, j \in DOMAIN report_types : i # j => report_types[i] # report_types[j])
        => C23_SummaryCountsAddUp

\* the position among the generating events of the event at position i
ReportIndexOf(i) == GeneratingUpTo(events, i) - 1

\* C24: progress allocation.  Connecting publishes 5, connected 10, the
\* i-th of n report types (i from 0) publishes 10 + floor((i+1)*70/n), on
\* its generating event and on its completion event, finalizing publishes
\* 90 and the finished event 100; every generating-phase value lies in
\* 10..80 and the last report type's value is 80.
C24_ProgressAllocation ==
    program = "app_gateway" =>
        LET n == Len(report_types)
        IN \A k \in DOMAIN events :
              LET e == events[k]
              IN /\ e.step = "connecting" => e.progress = 5
                 /\ e.step = "connected" => e.progress = 10
                 /\ (IsGenerating(e) \/ IsReportComplete(e)) =>
                       /\ n >= 1
                       /\ e.progress * n <= 10 * n + (ReportIndexOf(k) + 1) * 70
                       /\ (e.progress + 1) * n > 10 * n + (ReportIndexOf(k) + 1) * 70
                       /\ e.progress \in 10..80
                       /\ ReportIndexOf(k) = n - 1 => e.progress = 80
                 /\ e.step = "finalizing" => e.progress = 90
                 /\ e.status = "finished" => e.progress = 100

\* three report types: 33, 56 and 80
C24_Witness ==
    /\ program = "app_gateway"
    /\ state = "Completed"
    /\ Len(report_types) = 3
    /\ Len(events) = 11
    /\ events[1].progress = 5 /\ events[2].progress = 10
    /\ events[3].progress = 33 /\ events[4].progress = 33
    /\ events[5].progress = 56 /\ events[7].progress = 80
    /\ events[9].progress = 90 /\ events[11].progress = 100


\* the two events that end a job's stream
IsFinished(e) == e.event_type = "status" /\ e.status = "finished"
IsError(e) == e.event_type = "error"
IsTerminal(e) == IsFinished(e) \/ IsError(e)
Terminals == {i \in DOMAIN events : IsTerminal(events[i])}

\* C25: every run of execute_report_generation publishes exactly one
\* terminal event, a finished event with progress 100 or an error event,
\* never both, and no event after it: a run that has left its try block has
\* published one terminal event, as its last event, and a run still inside
\* it has published none.
C25_ExactlyOneTerminalEvent ==
    program = "app_gateway" =>
        /\ pc \in {"finally", "done"} =>
              /\ Cardinality(Terminals) = 1
              /\ Terminals = {Len(events)}
              /\ IsFinished(events[Len(events)]) <=> state = "Completed"
              /\ IsError(events[Len(events)]) <=> state = "Failed"
              /\ IsFinished(events[Len(events)]) =>
                     events[Len(events)].progress = 100
        /\ pc \in {"queued", "open", "loop", "complete"} => Terminals = {}

\* a job that failed after it had published events, and returned
C25_Witness ==
    /\ program = "app_gateway"
    /\ pc = "done"
    /\ state = "Failed"
    /\ Len(events) = 2
    /\ IsError(events[2])
    /\ ~IsTerminal(events[1])


\* C26: RPC calls only on an open session.  Each RPC invocation of a job
\* happens after the job's session open succeeded and before its close is
\* attempted: a step that invokes an RPC starts with the one session of the
\* job open and no close attempted, and attempts none itself; once a close
\* was attempted no RPC follows.
C26_RpcOnOpenSessionOnly ==
    [][/\ rpcLog' # rpcLog =>
            /\ Len(rpcLog') = Len(rpcLog) + 1
            /\ connected /\ openCount = 1 /\ dev = "Device"
            /\ closeCount = 0 /\ closeCount' = 0
       /\ closeCount > 0 => rpcLog' = rpcLog]_vars

\* an RPC is never on record for a job that opened no session
RpcOnlyAfterOpen == rpcLog # <<>> => openCount = 1

\* both programs, with RPCs invoked and then the session closed
C26_Witness ==
    /\ pc = "done"
    /\ Len(rpcLog) = 2
    /\ openCount = 1
    /\ closeCount = 1
    /\ ~connected


UnknownReportType == ErrorResult("Unknown report type")

\* C27: the three registries have the same id set, so a request that passes
\* the router's validation never reaches the service's 'Unknown report type'
\* branch and every accepted id has an RPC mapping: the router's ids, the
\* keys of the service's REPORT_TYPES and the keys of REPORT_REGISTRY are
\* one set; every id of an accepted request is a key of the service's
\* registry with an RPC name, and no result of a service job is the
\* 'Unknown report type' error.
C27_RegistriesAgree ==
    /\ valid_report_ids = DOMAIN REPORT_TYPES
    /\ DOMAIN REPORT_TYPES = DOMAIN REPORT_REGISTRY
    /\ \A id \in DOMAIN REPORT_TYPES :
          /\ REPORT_TYPES[id].rpc # ""
          /\ REPORT_REGISTRY[id].rpc = REPORT_TYPES[id].rpc
    /\ (program = "app_gateway" /\ response.status_code = 200) =>
          /\ \A i \in DOMAIN report_types :
                /\ report_types[i] \in DOMAIN REPORT_TYPES
                /\ REPORT_TYPES[report_types[i]].rpc # ""
          /\ \A id \in DOMAIN results : results[id] # UnknownReportType
          /\ Len(rpcLog) = index

\* an accepted request of three report types, each sent to the device
C27_Witness ==
    /\ program = "app_gateway"
    /\ response.status_code = 200
    /\ state = "Completed"
    /\ Len(report_types) = 3
    /\ Len(rpcLog) = 3
    /\ \A id \in DOMAIN results : results[id] # UnknownReportType


\* the events a step publishes
NewEvents == {events'[i] : i \in (Len(events) + 1)..Len(events')}

\* the iteration of the loop over report_types taken by a step
IteratesReport == program = "app_gateway" /\ pc = "loop" /\ index' = index + 1

\* C28: a per-report completion event is published if and only if that
\* report type's recorded result has status success.  The iteration of a
\* report type publishes the completion event of that type exactly when the
\* result it records has status success; an iteration whose RPC failed
\* records an error result and publishes neither a completion event nor an
\* error event, only its generating event.
C28_CompletionEventIffSuccess ==
    [][IteratesReport =>
          LET id == report_types[index + 1]
              completions == {e \in NewEvents : IsReportComplete(e)}
          IN /\ id \in DOMAIN results'
             /\ (completions # {}) <=> (results'[id].status = "success")
             /\ \A e \in completions :
                   e.report_type = id /\ e.report_status = "success"
             /\ Cardinality(completions) <= 1
             /\ Len(rpcLog') = Len(rpcLog) + 1
             /\ rpcLog'[Len(rpcLog')].outcome \in RpcFailures =>
                   /\ results'[id].status = "error"
                   /\ \A e \in NewEvents : IsGenerating(e)
                   /\ Len(events') = Len(events) + 1
             /\ \A e \in NewEvents : ~IsTerminal(e)]_vars

\* the failure of an RPC is visible in the final summary: the summary event
\* of a Completed job carries the recorded results, with the error result of
\* a report type whose last RPC failed
FailedRpcVisibleInSummary ==
    (program = "app_gateway" /\ state = "Completed") =>
        /\ IsSummary(events[Len(events) - 1])
        /\ events[Len(events) - 1].reports = results
        /\ \A k \in DOMAIN rpcLog :
              (rpcLog[k].outcome \in RpcFailures /\ LastOfItsId(report_types, k)) =>
                  results[report_types[k]].status = "error"
        /\ \A i \in DOMAIN events : ~IsError(events[i])

\* a Completed job of two report types, the first failed and the second
\* succeeded: one completion event, and the error in the summary
C28_Witness ==
    /\ program = "app_gateway"
    /\ state = "Completed"
    /\ report_types = <<"bgp", "routes">>
    /\ rpcLog[1].outcome = "RpcError"
    /\ rpcLog[2].outcome = "ok"
    /\ Cardinality({i \in DOMAIN events : IsReportComplete(events[i])}) = 1
    /\ \E i \in DOMAIN events :
          IsReportComplete(events[i]) /\ events[i].report_type = "routes"
    /\ events[Len(events) - 1].reports["bgp"].status = "error"
    /\ events[Len(events) - 1].reports["routes"].status = "success"


\* C29: the session close is attempted only after the job's terminal event
\* has been published, on every path, and the session is still open when
\* the finished event with progress 100 is published: a step that attempts
\* the close starts after the try block, with a terminal event as the last
\* published event, and publishes nothing; the step that publishes the
\* finished event starts and ends with the session open and no close
\* attempted.
C29_CloseAfterTerminalEvent ==
    [][program = "app_gateway" =>
          /\ closeCount' # closeCount =>
                /\ pc = "finally"
                /\ events # <<>>
                /\ IsTerminal(events[Len(events)])
                /\ events' = events
          /\ (events' # events /\ IsFinished(events'[Len(events')])) =>
                /\ events'[Len(events')].progress = 100
                /\ openCount = 1
                /\ connected /\ connected'
                /\ closeCount = 0 /\ closeCount' = 0]_vars

\* a close was attempted only in a job whose stream has ended
CloseAttemptedAfterTerminalEvent ==
    (program = "app_gateway" /\ closeCount > 0) =>
        /\ pc = "done"
        /\ Terminals = {Len(events)}

\* the success path: the finished event published with the session open,
\* the close attempted after it
C29_Witness ==
    /\ program = "app_gateway"
    /\ state = "Completed"
    /\ pc = "done"
    /\ IsFinished(events[Len(events)])
    /\ closeCount = 1
    /\ ~connected

\* the failure path: the error event published, then the close attempted
CloseAfterErrorEventReached ==
    /\ program = "app_gateway"
    /\ state = "Failed"
    /\ pc = "done"
    /\ IsError(events[Len(events)])
    /\ closeCount = 1


\* the hostname whose call has just ended
DeviceHostname == batch.devices[device_pos + 1]

\* every device processed so far has its entry
ProcessedDevicesHaveEntries ==
    caller \in {"loop", "returned"} =>
        \A k \in 1..device_pos : batch.devices[k] \in DOMAIN overall_results

\* what generate_reports returned: an entry per device, counts within total,
\* nothing counted for a device whose call returned an error
ReturnedSummary ==
    caller = "returned" =>
        /\ device_pos = Len(batch.devices)
        /\ overall.devices = overall_results
        /\ \A k \in DOMAIN batch.devices : batch.devices[k] \in DOMAIN overall.devices
        /\ overall.total_devices = Len(batch.devices)
        /\ overall.total_reports = Len(batch.devices) * Len(batch.report_types)
        /\ overall.successful + overall.failed <= overall.total_reports
        /\ \A h \in DOMAIN overall.devices :
              overall.devices[h].status = "error" =>
                  /\ overall.devices[h].reports = EmptyMap
                  /\ DictGet(overall.devices[h], "successful", 0) = 0
                  /\ DictGet(overall.devices[h], "failed", 0) = 0
        /\ (\A h \in DOMAIN overall.devices : overall.devices[h].status = "error")
              => overall.successful = 0 /\ overall.failed = 0
        /\ \A h \in DOMAIN overall.devices :
              /\ overall.successful >= CountStatus(overall.devices[h].reports, "success")
              /\ overall.failed >= CountStatus(overall.devices[h].reports, "error")

\* the end of a device's call whose validation or connection failed: the
\* error return is entered under the hostname and the loop goes on; only an
\* exception of a device.close(), on a session that had been opened, leaves
\* generate_reports
FailedDeviceDoesNotStopTheLoop ==
    (/\ caller = "loop" /\ pc = "done"
     /\ (caller' # caller \/ device_pos' # device_pos)) =>
        /\ ret.status = "error" =>
              /\ caller' = "loop"
              /\ device_pos' = device_pos + 1
              /\ DeviceHostname \in DOMAIN overall_results'
              /\ overall_results'[DeviceHostname] = ret
        /\ caller' = "raised" =>
              /\ ret.status = "raised"
              /\ openCount = 1 /\ closeCount = 1

\* C30: in generate_reports over a list of devices every device is
\* processed regardless of earlier devices' connection or validation
\* failures and gets an entry in the result; summary.successful +
\* summary.failed never exceeds summary.total_reports, and a device whose
\* job failed as a whole contributes 0 to both counts.
C30_EveryDeviceProcessed ==
    /\ [](ProcessedDevicesHaveEntries /\ ReturnedSummary)
    /\ [][FailedDeviceDoesNotStopTheLoop]_vars

\* two devices: the connection of the first failed, the second answered one
\* report and failed the other
C30_Witness ==
    /\ caller = "returned"
    /\ batch.devices = <<"r1", "r2">>
    /\ batch.report_types = <<"bgp", "routes">>
    /\ overall.devices["r1"].status = "error"
    /\ overall.devices["r1"].error = "Connection failed"
    /\ overall.devices["r2"].successful = 1
    /\ overall.devices["r2"].failed = 1
    /\ overall.total_reports = 4
    /\ overall.successful = 1
    /\ overall.failed = 1

\* two devices, both refused by the validation: two entries, nothing counted
ValidationFailuresReached ==
    /\ caller = "returned"
    /\ batch.devices = <<"r1", "r2">>
    /\ batch.report_types = <<"bogus", "bgp">>
    /\ overall.devices["r1"].error = "Invalid report types"
    /\ overall.devices["r2"].error = "Invalid report types"
    /\ overall.total_reports = 4
    /\ overall.successful = 0 /\ overall.failed = 0

\* a device.close() that raised: generate_reports ends with the exception
CloseExceptionLeavesGenerateReports ==
    /\ caller = "raised"
    /\ device_pos < Len(batch.devices)
    /\ overall = NoOverall

=============================================================================
